---- MODULE Spec2Model ----
(***************************************************************************)
(* Model of the media-viz dashboard: the data access layer (lib/db.ts),    *)
(* the data proxy (routes/api/data), the dashboard shell (+page.svelte)    *)
(* and the presentation panels (Timeline, TopNChart, RecentSessions).      *)
(*                                                                         *)
(* JavaScript runs each task to completion, so one action is one task:     *)
(* the code from one resumption (an event, or the settling of an awaited   *)
(* promise) to the next await, together with the microtasks it queues      *)
(* (Svelte's flush, `await tick()`, promise reactions).                    *)
(*                                                                         *)
(* The four panels share no variable: each reads only the connection and   *)
(* its own state. A behaviour therefore follows one panel (focus): all     *)
(* four are mounted and issue their queries, the events and the query      *)
(* results of the panel in focus are explored, and the queries of the      *)
(* other three stay pending (no query has a timeout).                      *)
(***************************************************************************)
EXTENDS Integers, Sequences, FiniteSets, TLC

\* ------------------------------------------------------------------ bounds
\* Number of initDB() invocations the API harness may make.
MaxCalls == 2
\* Number of query-function calls the API harness may make.
MaxApiCalls == 2
\* Number of user events (control changes, window resizes) in a page session.
MaxEvents == 2
\* Number of days that pass during a page session.
MaxDays == 1
\* User events dispatched to the Timeline in one behaviour.
MaxNav == 3
\* Rows in the data file.
MaxTableRows == 3

\* --------------------------------------------------------------- constants
\* `let db: duckdb.AsyncDuckDB | null = null`
NoDb == 0
\* `let conn: duckdb.AsyncDuckDBConnection | null = null`
NoConn == 0
\* No response received yet (the local `response` before line 35 resumes).
NoStatus == 0

Calls == 1..MaxCalls

\* Values of `string | null` variables.
Null == "<null>"

ErrNotInitialized == "Database not initialized"
\* Message of a failure raised inside the query engine (a black box).
ErrEngine == "<engine error>"

\* Statuses the remote object store may answer with.
UpstreamStatuses == {200, 404, 503}

\* Response.ok
ResponseOk(status) == status \in 200..299

\* What the remote object store may answer: a status and a body.
UpstreamResponses ==
    {[status |-> s,
      body |-> CASE s = 200 -> "<parquet bytes>"
                 [] s = 404 -> "<not found page>"
                 [] OTHER -> "<unavailable page>"] : s \in UpstreamStatuses}

\* A proxy that answers every upstream failure with 502.
ProxyGETBadGateway(upstream) ==
    IF ResponseOk(upstream.status)
    THEN [status |-> 200, body |-> upstream.body,
          contentType |-> "application/octet-stream",
          cacheControl |-> "public, max-age=300"]
    ELSE [status |-> 502, body |-> "Failed to fetch parquet file",
          contentType |-> "text/plain;charset=UTF-8",
          cacheControl |-> Null]

\* The data proxy: routes/api/data GET, from the upstream response to the
\* Response it returns (`new Response(data, {headers})` has status 200).
ProxyGET(upstream) ==
    IF ResponseOk(upstream.status)
    THEN [status |-> 200, body |-> upstream.body,
          contentType |-> "application/octet-stream",
          cacheControl |-> "public, max-age=300"]
    ELSE [status |-> upstream.status, body |-> "Failed to fetch parquet file",
          contentType |-> "text/plain;charset=UTF-8",
          cacheControl |-> Null]

\* A load error that does not carry the status.
LoadErrorMessageNoStatus(status) == "Failed to fetch parquet"

\* `Failed to fetch parquet: ${response.status}`
LoadErrorMessage(status) ==
    CASE status = 404 -> "Failed to fetch parquet: 404"
      [] status = 503 -> "Failed to fetch parquet: 503"
      [] status = 200 -> "Failed to fetch parquet: 200"
      [] OTHER -> "Failed to fetch parquet: ?"

QueryFns == {"getRecentSessions", "getTopByDimension", "getTimeRange",
             "getTimelineSessions"}

VARIABLES
    db,            \* module variable db: NoDb or the call that created the engine
    conn,          \* module variable conn: NoConn or the call that opened it
    initPc,        \* per initDB() invocation: the await it is suspended at
    initErr,       \* per invocation: message of the error it rejected with
    fetchStatus,   \* per invocation: status of the response it received
    connInst,      \* per invocation: engine instance its connection belongs to
    views,         \* engine instances in which the view `sessions` exists
    fetchCount,    \* number of fetch(PARQUET_URL) requests issued
    registerCount, \* number of registerFileBuffer calls issued
    viewCount,     \* number of CREATE VIEW statements that succeeded
    proxyLog,      \* the data proxy: requests served, upstream fetches made
    table,         \* rows of the view `sessions` (the fetched file's content)
    answer,        \* the last direct query-function call and what it returned
    apiLog,        \* harness: the last direct call of a query function
    shellPc,       \* +page: created, awaitInit, ready or failed
    dbReady,       \* +page: let dbReady
    initError,     \* +page: let initError
    initCalls,     \* number of initDB() invocations made by +page
    loading,       \* per panel: let loading
    error,         \* per panel: let error
    sessions,      \* Timeline and RecentSessions: let sessions (row count)
    tnData,        \* TopNChart: videoData and musicData (row counts)
    selectedDimension, \* TopNChart: let selectedDimension
    tnTimeRange,   \* TopNChart: let selectedTimeRange
    tlTimeRange,   \* Timeline: let selectedTimeRange
    offsetDays,    \* Timeline: let offsetDays
    startDate,     \* Timeline: let startDate (in days)
    endDate,       \* Timeline: let endDate (in days)
    inflight,      \* per panel: the loadData() invocations awaiting their query
    queryCalls,    \* per panel: number of query-function calls it has made
    rendered,      \* per drawing surface: the rows drawn on it
    now,           \* the clock (in days)
    events,        \* number of user events dispatched so far
    lastEvent,     \* kind of the last event a panel handled
    focus          \* the panel this behaviour follows

dbVars == <<db, conn, initPc, initErr, fetchStatus, connInst, views,
            fetchCount, registerCount, viewCount, proxyLog>>

shellVars == <<shellPc, dbReady, initError, initCalls>>

panelVars == <<loading, error, sessions, tnData, selectedDimension,
               tnTimeRange, tlTimeRange, offsetDays, startDate, endDate,
               inflight, queryCalls, rendered, events, lastEvent>>

vars == <<db, conn, initPc, initErr, fetchStatus, connInst, views,
          fetchCount, registerCount, viewCount, proxyLog, table, answer,
          apiLog, shellPc, dbReady, initError, initCalls,
          loading, error, sessions, tnData, selectedDimension,
          tnTimeRange, tlTimeRange, offsetDays, startDate, endDate,
          inflight, queryCalls, rendered, events, lastEvent, now, focus>>

\* The proxy has served no request yet.
NoProxyRequest ==
    [requests |-> 0, upstreamFetches |-> 0,
     upstream |-> [status |-> NoStatus, body |-> Null],
     response |-> [status |-> NoStatus, body |-> Null,
                   contentType |-> Null, cacheControl |-> Null]]

NoApiCall == [n |-> 0, fn |-> Null, outcome |-> Null,
              initDone |-> FALSE, loadFailed |-> FALSE]

InitDb ==
    /\ db = NoDb
    /\ conn = NoConn
    /\ initPc = [c \in Calls |-> "idle"]
    /\ initErr = [c \in Calls |-> Null]
    /\ fetchStatus = [c \in Calls |-> NoStatus]
    /\ connInst = [c \in Calls |-> NoDb]
    /\ views = {}
    /\ fetchCount = 0
    /\ registerCount = 0
    /\ viewCount = 0
    /\ proxyLog = NoProxyRequest

\* ------------------------------------------------------------ lib/db.ts
\* `if (!conn) throw new Error("Database not initialized")`, the first line of
\* each query function: the call throws, or sends its query over conn.
QueryGuard(fn, c) == IF c = NoConn THEN ErrNotInitialized ELSE "sent"

\* initDB, entry to the first await: `if (db) return;` then selectBundle.
InitDBEnter(c) == IF db # NoDb THEN "returned" ELSE "selectBundle"

\* An invocation has settled.
Resolved(c) == initPc[c] \in {"returned", "resolved"}
Rejected(c) == initPc[c] = "rejected"
Running(c) == initPc[c] \notin {"idle", "returned", "resolved", "rejected"}

\* Lines 22-31: selectBundle settled; the engine is created and stored in db.
BundleSelected(c) ==
    /\ initPc[c] = "selectBundle"
    /\ db' = c
    /\ initPc' = [initPc EXCEPT ![c] = "instantiate"]
    /\ UNCHANGED <<proxyLog, conn, initErr, fetchStatus, connInst, views,
                   fetchCount, registerCount, viewCount>>

\* Lines 31-35: instantiate settled; the data file is requested.
Instantiated(c) ==
    /\ initPc[c] = "instantiate"
    /\ initPc' = [initPc EXCEPT ![c] = "fetch"]
    /\ fetchCount' = fetchCount + 1
    /\ UNCHANGED <<proxyLog, db, conn, initErr, fetchStatus, connInst, views,
                   registerCount, viewCount>>

\* Line 31: the engine fails to start; the await throws out of initDB.
InstantiateFailed(c) ==
    /\ initPc[c] = "instantiate"
    /\ initPc' = [initPc EXCEPT ![c] = "rejected"]
    /\ initErr' = [initErr EXCEPT ![c] = ErrEngine]
    /\ UNCHANGED <<proxyLog, db, conn, fetchStatus, connInst, views,
                   fetchCount, registerCount, viewCount>>

\* A response check that never throws.
ThrowsOnResponseNever(response) == FALSE

\* Line 36: `if (!response.ok) throw ...`
ThrowsOnResponse(response) == ~ResponseOk(response.status)

\* Lines 35-39: the request reaches the proxy, which makes its one upstream
\* fetch (part_001 line 6) and answers; initDB resumes with the response.
FetchResponded(c) ==
    /\ initPc[c] = "fetch"
    /\ \E upstream \in UpstreamResponses :
         LET response == ProxyGET(upstream) IN
         /\ proxyLog' = [requests |-> proxyLog.requests + 1,
                         upstreamFetches |-> proxyLog.upstreamFetches + 1,
                         upstream |-> upstream, response |-> response]
         /\ fetchStatus' = [fetchStatus EXCEPT ![c] = response.status]
         /\ IF ThrowsOnResponse(response)
            THEN /\ initPc' = [initPc EXCEPT ![c] = "rejected"]
                 /\ initErr' = [initErr EXCEPT
                                  ![c] = LoadErrorMessage(response.status)]
            ELSE /\ initPc' = [initPc EXCEPT ![c] = "arrayBuffer"]
                 /\ UNCHANGED initErr
    /\ UNCHANGED <<db, conn, connInst, views,
                   fetchCount, registerCount, viewCount>>

\* Lines 39-43: the body is read; the buffer is registered with the engine.
BufferRead(c) ==
    /\ initPc[c] = "arrayBuffer"
    /\ initPc' = [initPc EXCEPT ![c] = "register"]
    /\ registerCount' = registerCount + 1
    /\ UNCHANGED <<proxyLog, db, conn, initErr, fetchStatus, connInst, views,
                   fetchCount, viewCount>>

\* Line 45, the call: db.connect() on the engine db names at this moment.
Registered(c) ==
    /\ initPc[c] = "register"
    /\ initPc' = [initPc EXCEPT ![c] = "connect"]
    /\ connInst' = [connInst EXCEPT ![c] = db]
    /\ UNCHANGED <<proxyLog, db, conn, initErr, fetchStatus, views,
                   fetchCount, registerCount, viewCount>>

\* Lines 45-51: the connection is stored in conn; CREATE VIEW is sent on it.
Connected(c) ==
    /\ initPc[c] = "connect"
    /\ conn' = c
    /\ initPc' = [initPc EXCEPT ![c] = "createView"]
    /\ UNCHANGED <<proxyLog, db, initErr, fetchStatus, connInst, views,
                   fetchCount, registerCount, viewCount>>

\* Lines 48-52: CREATE VIEW succeeded; initDB returns.
ViewCreated(c) ==
    /\ initPc[c] = "createView"
    /\ connInst[c] \notin views
    /\ views' = views \cup {connInst[c]}
    /\ viewCount' = viewCount + 1
    /\ initPc' = [initPc EXCEPT ![c] = "resolved"]
    /\ UNCHANGED <<proxyLog, db, conn, initErr, fetchStatus, connInst,
                   fetchCount, registerCount>>

\* Lines 48-51: CREATE VIEW failed (the view exists already in that engine, or
\* the file is no parquet file); the await throws out of initDB.
ViewFailed(c) ==
    /\ initPc[c] = "createView"
    /\ initPc' = [initPc EXCEPT ![c] = "rejected"]
    /\ initErr' = [initErr EXCEPT ![c] = ErrEngine]
    /\ UNCHANGED <<proxyLog, db, conn, fetchStatus, connInst, views,
                   fetchCount, registerCount, viewCount>>


\* ------------------------------------------------- API harness (any caller)
\* Some invocation ran initDB to its end.
InitCompleted == \E c \in Calls : initPc[c] = "resolved"
\* Some invocation received a non-2xx response.
LoadFailed == \E c \in Calls :
    fetchStatus[c] # NoStatus /\ ~ResponseOk(fetchStatus[c])

\* A caller invokes initDB().
ApiInit(c) ==
    /\ initPc[c] = "idle"
    /\ \A b \in Calls : b < c => initPc[b] # "idle"
    /\ initPc' = [initPc EXCEPT ![c] = InitDBEnter(c)]
    /\ UNCHANGED <<proxyLog, db, conn, initErr, fetchStatus, connInst, views,
                   fetchCount, registerCount, viewCount>>

\* A caller invokes initDB() while no other invocation is in progress.
ApiInitSeq(c) ==
    /\ \A b \in Calls : ~Running(b)
    /\ ApiInit(c)

\* A caller invokes one of the query functions.
ApiQuery(fn) ==
    /\ apiLog.n < MaxApiCalls
    /\ apiLog' = [n |-> apiLog.n + 1, fn |-> fn,
                  outcome |-> QueryGuard(fn, conn),
                  initDone |-> InitCompleted, loadFailed |-> LoadFailed]
    /\ UNCHANGED dbVars
    /\ UNCHANGED <<shellPc, dbReady, initError, initCalls, now, focus,
                   table, answer>>
    /\ UNCHANGED <<loading, error, sessions, tnData, selectedDimension,
                   tnTimeRange, tlTimeRange, offsetDays, startDate, endDate,
                   inflight, queryCalls, rendered, events, lastEvent>>

\* ---------------------------------------------------------- lib/types.ts
Dimensions == {"artist", "device_name", "title", "album", "series_name"}
TimeRanges == {"day", "week", "month"}
MediaTypes == {"Music", "Video"}

\* ------------------------------------------------------------ the panels
\* Timeline, TopNChart, RecentSessions mediaType="Music" and ="Video".
Panels == {"TL", "TN", "RM", "RV"}
SessionPanels == {"TL", "RM", "RV"}
\* What is drawn: the timeline svg, the two tables, the two echarts instances.
Surfaces == {"TL", "RM", "RV", "Video", "Music"}
\* Sizes of a query result: no row, one row, several rows.
Rows == {0, 1, 2}

ErrNoData == "No data for selected filters"
ErrFallback == "Failed to load data"

\* A thrown value: an Error with a message (nothing else is thrown here).
Thrown(message) == [isError |-> TRUE, message |-> message]

\* A catch block that shows the fixed text whatever was thrown.
ErrorMessageGeneric(e) == ErrFallback

\* `e instanceof Error ? e.message : "Failed to load data"`
ErrorMessage(e) == IF e.isError THEN e.message ELSE ErrFallback
\* `e instanceof Error ? e.message : "Failed to initialize database"`
InitErrorMessage(e) ==
    IF e.isError THEN e.message ELSE "Failed to initialize database"

\* The query function each panel calls.
QueryFnOf(p) == IF p = "TL" THEN "getTimelineSessions"
                ELSE IF p = "TN" THEN "getTopByDimension"
                ELSE "getRecentSessions"

\* Query-function calls one loadData() makes: Promise.all of two in TopNChart.
CallsPerLoad(p) == IF p = "TN" THEN 2 ELSE 1

\* A month of 31 days.
SpanDaysLongMonth(range) == IF range = "day" THEN 1
                            ELSE IF range = "week" THEN 7 ELSE 31

\* Span of the timeline window in days, per granularity.
SpanDays(range) == IF range = "day" THEN 1
                   ELSE IF range = "week" THEN 7 ELSE 30

\* Timeline updateDateRange: [endDate, startDate] from the cursor.
UpdateDateRange(range, offset) ==
    LET e == now - offset IN [endDate |-> e, startDate |-> e - SpanDays(range)]

\* The template's {#if loading} {:else if error} {:else if sessions.length
\* === 0} {:else} chain of Timeline and RecentSessions.
DisplayOf(isLoading, err, rows) ==
    IF isLoading THEN "loading"
    ELSE IF err # Null THEN "error"
    ELSE IF rows = 0 THEN "empty"
    ELSE "loaded"

\* TopNChart's template: the error element replaces the charts row; each
\* side shows its chart or its empty message.
TopNDisplayOf(isLoading, err, data) ==
    IF err # Null THEN "error"
    ELSE IF isLoading THEN "loading"
    ELSE IF data.Video = 0 /\ data.Music = 0 THEN "empty"
    ELSE "loaded"

Display(p) ==
    IF shellPc # "ready" THEN "unmounted"
    ELSE IF p = "TN" THEN TopNDisplayOf(loading[p], error[p], tnData)
    ELSE DisplayOf(loading[p], error[p], sessions[p])

\* {#if videoData.length === 0 && !loading} <div class="empty-message">,
\* inside the charts row, which is hidden while error is set.
SideEmptyShown(side) ==
    /\ shellPc = "ready"
    /\ tnData[side] = 0 /\ ~loading["TN"]
    /\ error["TN"] = Null

\* The echarts instance of a side is visible with rows on it.
SideChartShown(side) ==
    /\ shellPc = "ready"
    /\ tnData[side] > 0
    /\ rendered[side].drawn
    /\ error["TN"] = Null

\* The +page template: {#if initError} {:else if !dbReady} {:else}.
ShellView == IF initError # Null THEN "init-error"
             ELSE IF ~dbReady THEN "init-loading"
             ELSE "main"

\* A connection of its own for each query: one per panel and side.
QueryConnOwn(p, side) ==
    10 * (CASE p = "TL" -> 1 [] p = "TN" -> 2 [] p = "RM" -> 3 [] OTHER -> 4)
      + (IF side = "Music" THEN 1 ELSE 0)

\* `await conn.query(...)`: the connection a query function sends its query
\* on is the module variable conn, read when the function is called.
QueryConn(p, side) == conn

\* The init-error view's first paragraph: `Failed to load data: {initError}`.
ShellErrorShown ==
    IF ShellView = "init-error"
    THEN [label |-> "Failed to load data: ", message |-> initError]
    ELSE [label |-> Null, message |-> Null]

\* The text in panel p's error element, Null when the element is not
\* rendered: TopNChart's `{#if error}`, the other panels' `{:else if error}`
\* after `{#if loading}`.
PanelErrorShown(p) ==
    IF shellPc # "ready" THEN Null
    ELSE IF p = "TN" THEN error[p]
    ELSE IF loading[p] THEN Null
    ELSE error[p]

\* A RecentSessions loadData() invocation waiting for its query.
Load(p) == [panel |-> p, conn |-> QueryConn(p, p)]
\* A Timeline loadData() invocation waiting for its query, with the
\* (startDate, endDate) arguments of its getTimelineSessions call.
TimelineLoad(range, offset) ==
    [panel |-> "TL", conn |-> QueryConn("TL", "TL"),
     startDate |-> UpdateDateRange(range, offset).startDate,
     endDate |-> UpdateDateRange(range, offset).endDate]
\* A TopNChart loadData() invocation: its two queries and whether the
\* await of Promise.all has already resumed (in the try or in the catch).
TopNLoad(dimension, timeRange) ==
    [Video |-> "pending", Music |-> "pending",
     dimension |-> dimension, timeRange |-> timeRange,
     videoRows |-> 0, musicRows |-> 0, resumed |-> FALSE,
     videoConn |-> QueryConn("TN", "Video"),
     musicConn |-> QueryConn("TN", "Music")]

\* loadData(), from its entry to its await: loading = true, error = null and
\* the query call(s). A call that throws "Database not initialized" rejects
\* at once, and the catch block runs before the task ends.
\* loadData() without `loading = true`.
LoadingAfterStartStale(p) ==
    loading[p] /\ QueryGuard(QueryFnOf(p), conn) = "sent"
\* loadData() without `error = null`.
ErrorAfterStartKept(p) ==
    IF QueryGuard(QueryFnOf(p), conn) = "sent" THEN error[p]
    ELSE ErrNotInitialized

LoadingAfterStart(p) == QueryGuard(QueryFnOf(p), conn) = "sent"
ErrorAfterStart(p) ==
    IF QueryGuard(QueryFnOf(p), conn) = "sent" THEN Null
    ELSE ErrorMessage(Thrown(QueryGuard(QueryFnOf(p), conn)))
InflightAfterStart(p, rec) ==
    IF QueryGuard(QueryFnOf(p), conn) = "sent"
    THEN Append(inflight[p], rec) ELSE inflight[p]

Drawn(rows) == [drawn |-> TRUE, rows |-> rows]
NotDrawnYet == [drawn |-> FALSE, rows |-> 0]

\* The sequence s without its i-th element.
RemoveAt(s, i) == SubSeq(s, 1, i - 1) \o SubSeq(s, i + 1, Len(s))

\* User events a behaviour may hold: the Timeline's navigation needs three
\* for its clamp to act (back by a day, granularity to week, forward).
EventBudget == IF focus = "TL" THEN MaxNav ELSE MaxEvents

\* No panel has more loads in flight than its first and one per event.
MaxLoads == IF MaxNav > MaxEvents THEN MaxNav + 1 ELSE MaxEvents + 1

\* Label of a control event: whether the panel showed an error when it came.
ControlEvent(p) == IF error[p] # Null THEN "control after error" ELSE "control"

\* loadData() of panel p up to its await.
StartLoad(p, rec) ==
    /\ loading' = [loading EXCEPT ![p] = LoadingAfterStart(p)]
    /\ error' = [error EXCEPT ![p] = ErrorAfterStart(p)]
    /\ inflight' = [inflight EXCEPT ![p] = InflightAfterStart(p, rec)]
    /\ queryCalls' = [queryCalls EXCEPT ![p] = @ + CallsPerLoad(p)]

\* ---------------------------------------------------- +page (the shell)
\* The invocation of initDB() that +page's onMount makes.
ShellCall == 1

InitShell ==
    /\ shellPc = "created"
    /\ dbReady = FALSE
    /\ initError = Null
    /\ initCalls = 0

InitPanels ==
    /\ loading = [p \in Panels |-> TRUE]
    /\ error = [p \in Panels |-> Null]
    /\ sessions = [p \in SessionPanels |-> 0]
    /\ tnData = [Video |-> 0, Music |-> 0]
    /\ selectedDimension = "artist"
    /\ tnTimeRange = "week"
    /\ tlTimeRange = "day"
    /\ offsetDays = 0
    /\ endDate = 0
    /\ startDate = 0 - SpanDays("day")
    /\ inflight = [p \in Panels |-> <<>>]
    /\ queryCalls = [p \in Panels |-> 0]
    /\ rendered = [s \in Surfaces |-> NotDrawnYet]
    /\ events = 0
    /\ lastEvent = "none"

\* onMount, to `await initDB()`.
ShellMount ==
    /\ shellPc = "created"
    /\ shellPc' = "awaitInit"
    /\ initCalls' = initCalls + 1
    /\ initPc' = [initPc EXCEPT ![ShellCall] = InitDBEnter(ShellCall)]
    /\ UNCHANGED <<proxyLog, db, conn, initErr, fetchStatus, connInst, views,
                   fetchCount, registerCount, viewCount>>
    /\ UNCHANGED <<dbReady, initError, apiLog, now, focus, table, answer>>
    /\ UNCHANGED panelVars

\* initDB() called without `await`: onMount goes on at once.
InitNotAwaited == TRUE

\* `await initDB()` resumes in the try once the invocation has resolved.
InitAwaited == Resolved(ShellCall)

\* onMount resumes in the try: dbReady = true. Svelte's flush then creates
\* the four panels; each runs `$: if (dbReady) loadData()` as it is created.
ShellInitResolved ==
    /\ shellPc = "awaitInit"
    /\ InitAwaited
    /\ shellPc' = "ready"
    /\ dbReady' = TRUE
    /\ loading' = [p \in Panels |-> LoadingAfterStart(p)]
    /\ error' = [p \in Panels |-> ErrorAfterStart(p)]
    /\ inflight' = [p \in Panels |->
          InflightAfterStart(p,
              IF p = "TN" THEN TopNLoad(selectedDimension, tnTimeRange)
              ELSE IF p = "TL" THEN TimelineLoad(tlTimeRange, offsetDays)
              ELSE Load(p))]
    /\ queryCalls' = [p \in Panels |-> queryCalls[p] + CallsPerLoad(p)]
    /\ endDate' = UpdateDateRange(tlTimeRange, offsetDays).endDate
    /\ startDate' = UpdateDateRange(tlTimeRange, offsetDays).startDate
    /\ lastEvent' = "ready"
    /\ UNCHANGED <<sessions, tnData, selectedDimension, tnTimeRange,
                   tlTimeRange, offsetDays, rendered, events>>
    /\ UNCHANGED <<initError, initCalls, apiLog, now, focus, table, answer>>
    /\ UNCHANGED dbVars

\* onMount resumes in the catch: initError = e.message.
ShellInitRejected ==
    /\ shellPc = "awaitInit"
    /\ Rejected(ShellCall)
    /\ shellPc' = "failed"
    /\ initError' = InitErrorMessage(Thrown(initErr[ShellCall]))
    /\ UNCHANGED <<dbReady, initCalls, apiLog, now, focus, table, answer>>
    /\ UNCHANGED panelVars
    /\ UNCHANGED dbVars

\* ------------------------------------------------------------- TopNChart
\* handleDimensionChange: the select's change event.
TopNDimensionChange(d) ==
    /\ shellPc = "ready"
    /\ focus = "TN"
    /\ events < MaxEvents
    /\ d # selectedDimension
    /\ selectedDimension' = d
    /\ StartLoad("TN", TopNLoad(d, tnTimeRange))
    /\ events' = events + 1
    /\ lastEvent' = ControlEvent("TN")
    /\ UNCHANGED <<sessions, tnData, tnTimeRange, tlTimeRange, offsetDays,
                   startDate, endDate, rendered>>
    /\ UNCHANGED <<apiLog, now, focus, table, answer>>
    /\ UNCHANGED shellVars
    /\ UNCHANGED dbVars

\* handleTimeRangeChange: the select's change event.
TopNTimeRangeChange(r) ==
    /\ shellPc = "ready"
    /\ focus = "TN"
    /\ events < MaxEvents
    /\ r # tnTimeRange
    /\ tnTimeRange' = r
    /\ StartLoad("TN", TopNLoad(selectedDimension, r))
    /\ events' = events + 1
    /\ lastEvent' = ControlEvent("TN")
    /\ UNCHANGED <<sessions, tnData, selectedDimension, tlTimeRange,
                   offsetDays, startDate, endDate, rendered>>
    /\ UNCHANGED <<apiLog, now, focus, table, answer>>
    /\ UNCHANGED shellVars
    /\ UNCHANGED dbVars

\* renderCharts: a side with rows gets its chart (created on first use) set
\* to them; a side without rows keeps what it had.
RenderCharts(data) ==
    [s \in Surfaces |->
        IF s \in MediaTypes /\ data[s] > 0 THEN Drawn(data[s])
        ELSE rendered[s]]

\* The try block with `||` for `&&` in its empty test.
TopNApplyEitherEmpty(video, music) ==
    /\ tnData' = [Video |-> video, Music |-> music]
    /\ error' = [error EXCEPT !["TN"] =
                    IF video = 0 \/ music = 0 THEN ErrNoData ELSE @]
    /\ loading' = [loading EXCEPT !["TN"] = FALSE]
    /\ rendered' = RenderCharts([Video |-> video, Music |-> music])

\* loadData resumes in the try (lines 74-83) with both results.
TopNApply(video, music) ==
    /\ tnData' = [Video |-> video, Music |-> music]
    /\ error' = [error EXCEPT !["TN"] =
                    IF video = 0 /\ music = 0 THEN ErrNoData ELSE @]
    /\ loading' = [loading EXCEPT !["TN"] = FALSE]
    /\ rendered' = RenderCharts([Video |-> video, Music |-> music])

\* A catch block that also empties both sides.
TopNCatchClears(e) ==
    /\ error' = [error EXCEPT !["TN"] = ErrorMessage(e)]
    /\ loading' = [loading EXCEPT !["TN"] = FALSE]
    /\ tnData' = [Video |-> 0, Music |-> 0]
    /\ UNCHANGED rendered

\* loadData resumes in the catch (lines 84-88).
TopNCatch(e) ==
    /\ error' = [error EXCEPT !["TN"] = ErrorMessage(e)]
    /\ loading' = [loading EXCEPT !["TN"] = FALSE]
    /\ UNCHANGED <<tnData, rendered>>

OtherSide(side) == IF side = "Video" THEN "Music" ELSE "Video"

\* loadData() invocations of panel p still suspended at their await.
PendingLoads(p) ==
    IF p = "TN"
    THEN Cardinality({i \in 1..Len(inflight[p]) : ~inflight[p][i].resumed})
    ELSE Len(inflight[p])

\* The controls of a panel (RecentSessions has none).
Controls(p) == IF p = "TN" THEN <<selectedDimension, tnTimeRange>>
               ELSE IF p = "TL" THEN <<tlTimeRange, offsetDays>>
               ELSE <<>>

\* A load whose two queries have settled is over.
TopNKeep(i, rec) ==
    IF rec.Video # "pending" /\ rec.Music # "pending"
    THEN [inflight EXCEPT !["TN"] = RemoveAt(@, i)]
    ELSE [inflight EXCEPT !["TN"][i] = rec]

\* One getTopByDimension query of the i-th load resolves with n rows;
\* Promise.all resolves once both have.
TopNQueryResolved(i, side, n) ==
    /\ focus = "TN"
    /\ i \in 1..Len(inflight["TN"])
    /\ inflight["TN"][i][side] = "pending"
    /\ LET old == inflight["TN"][i]
           rec == [[old EXCEPT ![side] = "ok"] EXCEPT
                     !.videoRows = IF side = "Video" THEN n ELSE @,
                     !.musicRows = IF side = "Music" THEN n ELSE @]
       IN  /\ inflight' = TopNKeep(i, rec)
           /\ IF ~old.resumed /\ old[OtherSide(side)] = "ok"
              THEN /\ TopNApply(rec.videoRows, rec.musicRows)
                   /\ lastEvent' = "resolved"
              ELSE /\ UNCHANGED <<tnData, error, loading, rendered>>
                   /\ lastEvent' = "query"
    /\ UNCHANGED <<sessions, selectedDimension, tnTimeRange, tlTimeRange,
                   offsetDays, startDate, endDate, queryCalls, events>>
    /\ UNCHANGED <<apiLog, now, focus, table, answer>>
    /\ UNCHANGED shellVars
    /\ UNCHANGED dbVars

\* One getTopByDimension query of the i-th load fails; Promise.all rejects
\* with the first failure.
TopNQueryRejected(i, side) ==
    /\ focus = "TN"
    /\ i \in 1..Len(inflight["TN"])
    /\ inflight["TN"][i][side] = "pending"
    /\ LET old == inflight["TN"][i]
           rec == [old EXCEPT ![side] = "failed", !.resumed = TRUE]
       IN  /\ inflight' = TopNKeep(i, rec)
           /\ IF ~old.resumed
              THEN /\ TopNCatch(Thrown(ErrEngine))
                   /\ lastEvent' = "rejected"
              ELSE /\ UNCHANGED <<tnData, error, loading, rendered>>
                   /\ lastEvent' = "query"
    /\ UNCHANGED <<sessions, selectedDimension, tnTimeRange, tlTimeRange,
                   offsetDays, startDate, endDate, queryCalls, events>>
    /\ UNCHANGED <<apiLog, now, focus, table, answer>>
    /\ UNCHANGED shellVars
    /\ UNCHANGED dbVars

\* -------------------------------------------------------------- Timeline
\* Forward and Now buttons that are never disabled.
CanGoForwardAlways == TRUE

\* The button's disabled={!canGoForward}: `$: canGoForward = offsetDays > 0`.
CanGoForward == offsetDays > 0

\* loadData() of the Timeline up to its await: updateDateRange(), then the
\* query. The container leaves the DOM with the {:else} branch.
TimelineStartLoad(range, offset) ==
    /\ endDate' = UpdateDateRange(range, offset).endDate
    /\ startDate' = UpdateDateRange(range, offset).startDate
    /\ StartLoad("TL", TimelineLoad(range, offset))
    /\ rendered' = [rendered EXCEPT !["TL"] = NotDrawnYet]
    /\ events' = events + 1
    /\ lastEvent' = ControlEvent("TL")
    /\ UNCHANGED <<sessions, tnData, selectedDimension, tnTimeRange>>
    /\ UNCHANGED <<apiLog, now, focus, table, answer>>
    /\ UNCHANGED shellVars
    /\ UNCHANGED dbVars

\* goBack: the cursor moves back by one window.
GoBack ==
    /\ shellPc = "ready"
    /\ focus = "TL"
    /\ events < EventBudget
    /\ offsetDays' = offsetDays + SpanDays(tlTimeRange)
    /\ UNCHANGED tlTimeRange
    /\ TimelineStartLoad(tlTimeRange, offsetDays + SpanDays(tlTimeRange))

\* goForward without Math.max.
ForwardOffsetUnclamped(offset, range) == offset - SpanDays(range)

\* Math.max(0, offsetDays - n)
ForwardOffset(offset, range) ==
    IF offset - SpanDays(range) > 0 THEN offset - SpanDays(range) ELSE 0

\* goForward: the cursor moves forward by one window, not past the present.
GoForward ==
    /\ shellPc = "ready"
    /\ focus = "TL"
    /\ events < EventBudget
    /\ CanGoForward
    /\ offsetDays' = ForwardOffset(offsetDays, tlTimeRange)
    /\ UNCHANGED tlTimeRange
    /\ TimelineStartLoad(tlTimeRange, ForwardOffset(offsetDays, tlTimeRange))

\* goToNow
GoToNow ==
    /\ shellPc = "ready"
    /\ focus = "TL"
    /\ events < EventBudget
    /\ CanGoForward
    /\ offsetDays' = 0
    /\ UNCHANGED tlTimeRange
    /\ TimelineStartLoad(tlTimeRange, 0)

\* handleTimeRangeChange: the granularity select's change event.
TimelineTimeRangeChange(r) ==
    /\ shellPc = "ready"
    /\ focus = "TL"
    /\ events < EventBudget
    /\ r # tlTimeRange
    /\ tlTimeRange' = r
    /\ UNCHANGED offsetDays
    /\ TimelineStartLoad(r, offsetDays)

\* renderTable / renderTimeline after `await tick()`: the rows are drawn when
\* the template's {:else} branch has put the container in the DOM.
DrawSessions(p, err, rows) ==
    [rendered EXCEPT ![p] =
        IF DisplayOf(FALSE, err, rows) = "loaded" THEN Drawn(rows)
        ELSE NotDrawnYet]

\* loadData resumes in the try (lines 366-377) with n rows.
TimelineLoaded(i, n) ==
    /\ focus = "TL"
    /\ i \in 1..Len(inflight["TL"])
    /\ sessions' = [sessions EXCEPT !["TL"] = n]
    /\ loading' = [loading EXCEPT !["TL"] = FALSE]
    /\ rendered' = DrawSessions("TL", error["TL"], n)
    /\ inflight' = [inflight EXCEPT !["TL"] = RemoveAt(@, i)]
    /\ lastEvent' = "resolved"
    /\ UNCHANGED <<error, tnData, selectedDimension, tnTimeRange, tlTimeRange,
                   offsetDays, startDate, endDate, queryCalls, events>>
    /\ UNCHANGED <<apiLog, now, focus, table, answer>>
    /\ UNCHANGED shellVars
    /\ UNCHANGED dbVars

\* A catch block that calls loadData() again.
TimelineLoadFailedRetry(i) ==
    /\ focus = "TL"
    /\ i \in 1..Len(inflight["TL"])
    /\ queryCalls["TL"] < 2 * MaxLoads
    /\ queryCalls' = [queryCalls EXCEPT !["TL"] = @ + 1]
    /\ loading' = [loading EXCEPT !["TL"] = TRUE]
    /\ lastEvent' = "rejected"
    /\ UNCHANGED <<error, inflight, sessions, tnData, selectedDimension,
                   tnTimeRange, tlTimeRange, offsetDays, startDate, endDate,
                   rendered, events>>
    /\ UNCHANGED <<apiLog, now, focus, table, answer>>
    /\ UNCHANGED shellVars
    /\ UNCHANGED dbVars

\* loadData resumes in the catch (lines 378-382).
TimelineLoadFailed(i) ==
    /\ focus = "TL"
    /\ i \in 1..Len(inflight["TL"])
    /\ error' = [error EXCEPT !["TL"] = ErrorMessage(Thrown(ErrEngine))]
    /\ loading' = [loading EXCEPT !["TL"] = FALSE]
    /\ rendered' = [rendered EXCEPT !["TL"] = NotDrawnYet]
    /\ inflight' = [inflight EXCEPT !["TL"] = RemoveAt(@, i)]
    /\ lastEvent' = "rejected"
    /\ UNCHANGED <<sessions, tnData, selectedDimension, tnTimeRange,
                   tlTimeRange, offsetDays, startDate, endDate, queryCalls,
                   events>>
    /\ UNCHANGED <<apiLog, now, focus, table, answer>>
    /\ UNCHANGED shellVars
    /\ UNCHANGED dbVars

\* -------------------------------------------------------- RecentSessions
RecentPanels == {"RM", "RV"}

\* loadData resumes in the try (lines 986-995) with n rows.
RecentLoaded(p, n) ==
    /\ focus = p
    /\ inflight[p] # <<>>
    /\ sessions' = [sessions EXCEPT ![p] = n]
    /\ loading' = [loading EXCEPT ![p] = FALSE]
    /\ rendered' = DrawSessions(p, error[p], n)
    /\ inflight' = [inflight EXCEPT ![p] = Tail(@)]
    /\ lastEvent' = "resolved"
    /\ UNCHANGED <<error, tnData, selectedDimension, tnTimeRange, tlTimeRange,
                   offsetDays, startDate, endDate, queryCalls, events>>
    /\ UNCHANGED <<apiLog, now, focus, table, answer>>
    /\ UNCHANGED shellVars
    /\ UNCHANGED dbVars

\* loadData resumes in the catch (lines 996-1000).
RecentLoadFailed(p) ==
    /\ focus = p
    /\ inflight[p] # <<>>
    /\ error' = [error EXCEPT ![p] = ErrorMessage(Thrown(ErrEngine))]
    /\ loading' = [loading EXCEPT ![p] = FALSE]
    /\ inflight' = [inflight EXCEPT ![p] = Tail(@)]
    /\ lastEvent' = "rejected"
    /\ UNCHANGED <<sessions, tnData, selectedDimension, tnTimeRange,
                   tlTimeRange, offsetDays, startDate, endDate, queryCalls,
                   rendered, events>>
    /\ UNCHANGED <<apiLog, now, focus, table, answer>>
    /\ UNCHANGED shellVars
    /\ UNCHANGED dbVars

\* ------------------------------------------------------ panel controls
\* The two selects of TopNChart.
TopNControl ==
    \/ \E d \in Dimensions : TopNDimensionChange(d)
    \/ \E r \in TimeRanges : TopNTimeRangeChange(r)

\* The navigation buttons and the granularity select of the Timeline.
TimelineControl ==
    \/ GoBack
    \/ GoForward
    \/ GoToNow
    \/ \E r \in TimeRanges : TimelineTimeRangeChange(r)

\* A change of one of panel p's own controls; RecentSessions renders none.
ControlChange(p) ==
    IF p = "TN" THEN TopNControl
    ELSE IF p = "TL" THEN TimelineControl
    ELSE FALSE

\* ------------------------------------------------------- window events
\* Timeline handleResize: `if (sessions.length > 0 && container)
\* renderTimeline()`; the container exists in the {:else} branch only.
TimelineResized ==
    IF Display("TL") = "loaded"
    THEN [rendered EXCEPT !["TL"] = Drawn(sessions["TL"])]
    ELSE rendered

\* A window resize: Timeline's and TopNChart's handleResize run
\* (TopNChart's only resizes its chart instances).
WindowResize ==
    /\ shellPc = "ready"
    /\ events < EventBudget
    /\ rendered' = TimelineResized
    /\ events' = events + 1
    /\ lastEvent' = "resize"
    /\ UNCHANGED <<loading, error, sessions, tnData, selectedDimension,
                   tnTimeRange, tlTimeRange, offsetDays, startDate, endDate,
                   inflight, queryCalls>>
    /\ UNCHANGED <<apiLog, now, focus, table, answer>>
    /\ UNCHANGED shellVars
    /\ UNCHANGED dbVars

\* A day passes.
Tick ==
    /\ focus = "TL"
    /\ now < MaxDays
    /\ now' = now + 1
    /\ UNCHANGED <<apiLog, focus, table, answer>>
    /\ UNCHANGED panelVars
    /\ UNCHANGED shellVars
    /\ UNCHANGED dbVars

\* ------------------------------------------- lib/db.ts: the queries
\* The query functions as functions of the view's rows. Time is counted in
\* half hours from the moment of the call's `new Date()` at tick 0 of the
\* clock; a row carries the columns the WHERE, GROUP BY and ORDER BY clauses
\* read. Rows that tie in an ORDER BY come in the order the sort picks.
TicksPerDay == 48

\* limit omitted by the caller: the parameter's default applies.
NoLimit == 0 - 1
\* The `||` idiom, which also replaces 0.
EffectiveLimitOrDefault(limit) ==
    IF limit = NoLimit \/ limit = 0 THEN 10 ELSE limit
\* `limit: number = 10`
EffectiveLimit(limit) == IF limit = NoLimit THEN 10 ELSE limit

\* A nullable number column: <<>> is NULL, <<n>> the number n.
NullNumber == <<>>

Row(artist, device, mediaType, start) ==
    [artist |-> artist, device_name |-> device, media_type |-> mediaType,
     session_start |-> start, session_end |-> start,
     watch_time_seconds |-> NullNumber]

\* session_start values: a week before the call, at the call, after it.
Starts == {0 - 7 * TicksPerDay, 0, 1}

\* Rows that differ in label and media type.
GroupingRows ==
    [k \in 1..8 |->
        Row((<<Null, "", "a", "b">>)[((k - 1) % 4) + 1], "tv",
            (<<"Music", "Video">>)[((k - 1) \div 4) + 1], 0)]
\* Rows that differ in start time and media type.
WindowRows ==
    [k \in 1..6 |->
        Row("a", "tv", (<<"Music", "Video">>)[((k - 1) % 2) + 1],
            (<<0 - 7 * TicksPerDay, 0, 1>>)[((k - 1) \div 2) + 1])]
\* Rows that differ in device and start time.
DeviceRows ==
    [k \in 1..9 |->
        Row("a", (<<Null, "pc", "tv">>)[((k - 1) % 3) + 1], "Music",
            (<<0 - 7 * TicksPerDay, 0, 1>>)[((k - 1) \div 3) + 1])]

\* Rows that differ in label and watch time.
WatchRows ==
    [k \in 1..6 |->
        [Row((<<"a", "b">>)[((k - 1) % 2) + 1], "tv", "Music", 0)
            EXCEPT !.watch_time_seconds =
                      (<<NullNumber, <<0>>, <<125>>>>)[((k - 1) \div 2) + 1]]]
\* Rows that differ in watch time alone.
DurationRows ==
    [k \in 1..5 |->
        [Row("a", "tv", "Music", 0)
            EXCEPT !.watch_time_seconds =
                      <<(<<5, 59, 60, 600, 3725>>)[k]>>]]

\* Rows that differ in start and end time.
EndRows ==
    [k \in 1..4 |->
        [Row("a", "tv", "Music", (<<0, 1>>)[((k - 1) % 2) + 1])
            EXCEPT !.session_end = (<<0, 1>>)[((k - 1) \div 2) + 1]]]

\* The data files of up to MaxTableRows rows drawn from one family of rows.
TablesOver(family) ==
    UNION {{[i \in 1..n |-> family[ix[i]]] :
              ix \in {f \in [1..n -> 1..Len(family)] :
                        \A i \in 1..(n - 1) : f[i] <= f[i + 1]}} :
           n \in 0..MaxTableRows}
Tables == TablesOver(GroupingRows) \cup TablesOver(WindowRows)
            \cup TablesOver(DeviceRows) \cup TablesOver(WatchRows)
            \cup TablesOver(DurationRows) \cup TablesOver(EndRows)

\* Ascending order of text values (the device names of the rows).
TextBefore(a, b) == a = "pc" /\ b = "tv"

\* Descending order of count with the comparison turned around.
CountBeforeAscending(a, b) == a.count < b.count
\* ORDER BY count DESC
CountBefore(a, b) == a.count > b.count

\* Row a sorts strictly before row b under an ORDER BY clause.
RowBefore(clause, a, b) ==
    CASE clause = "session_start DESC" -> a.session_start > b.session_start
      [] clause = "session_start ASC" -> a.session_start < b.session_start
      [] clause = "count DESC" -> CountBefore(a, b)
      [] clause = "device_name, session_start" ->
            \/ TextBefore(a.device_name, b.device_name)
            \/ /\ a.device_name = b.device_name
               /\ a.session_start < b.session_start

\* ORDER BY: the rows of s, rearranged so that no row comes after one it
\* must precede.
OrderBy(s, clause) ==
    LET n == Len(s)
        perm == CHOOSE f \in [1..n -> 1..n] :
                   /\ \A i, j \in 1..n : i # j => f[i] # f[j]
                   /\ \A i \in 1..(n - 1) :
                         ~RowBefore(clause, s[f[i + 1]], s[f[i]])
    IN  [i \in 1..n |-> s[perm[i]]]

\* LIMIT n
Limit(s, n) == IF n < Len(s) THEN SubSeq(s, 1, n) ELSE s

\* date.toISOString(): the UTC calendar day and the time of day.
ToISOString(date) ==
    [day |-> date \div TicksPerDay, time |-> date % TicksPerDay]
\* The engine's reading of a timestamp literal in a comparison with the
\* session_start column.
TimestampLiteral(str) == str.day * TicksPerDay + str.time
\* `'${date.toISOString()}'` in the query text, as the engine reads it.
IsoInstant(date) == TimestampLiteral(ToISOString(date))

\* The engine's answer when the view `sessions` does not exist.
ViewExists == conn # NoConn /\ connInst[conn] \in views

\* getRecentSessions with ORDER BY session_start ASC.
GetRecentSessionsAscending(mediaType, limit) ==
    Limit(OrderBy(SelectSeq(table, LAMBDA r : r.media_type = mediaType),
                  "session_start ASC"),
          EffectiveLimit(limit))

\* getRecentSessions: lines 60-82.
GetRecentSessions(mediaType, limit) ==
    Limit(OrderBy(SelectSeq(table, LAMBDA r : r.media_type = mediaType),
                  "session_start DESC"),
          EffectiveLimit(limit))

\* `WHERE session_start >= '${cutoffStr}'`
InWindow(start, cutoff, at) == start >= cutoff

\* The cutoff of lines 97-106: the call's time minus 1, 7 or 30 days.
Cutoff(timeRange, at) ==
    IsoInstant(at - TicksPerDay * (IF timeRange = "day" THEN 1
                                   ELSE IF timeRange = "week" THEN 7
                                   ELSE 30))

\* The rows getTopByDimension aggregates: the WHERE clause of lines 119-122.
TopMatching(dimension, timeRange, mediaType, at) ==
    SelectSeq(table, LAMBDA r :
        /\ InWindow(r.session_start, Cutoff(timeRange, at), at)
        /\ r[dimension] # Null
        /\ r[dimension] # ""
        /\ (mediaType # Null => r.media_type = mediaType))

\* SUM over a nullable column: NULL values are skipped, and the sum of no
\* values is NULL.
RECURSIVE SqlSum(_)
SqlSum(values) ==
    IF values = <<>> THEN NullNumber
    ELSE LET rest == SqlSum(Tail(values))
         IN  IF Head(values) = NullNumber THEN rest
             ELSE IF rest = NullNumber THEN Head(values)
             ELSE <<Head(values)[1] + rest[1]>>

\* COALESCE(value, default)
Coalesce(value, default) == IF value = NullNumber THEN default ELSE value[1]

\* An aggregation that counts rows whatever countBy is.
AggregationCountOnly(countBy, group) == Len(group)

\* `countBy === "sessions" ? "COUNT(*)" :
\*  "COALESCE(SUM(watch_time_seconds), 0)"` over the rows of one group.
Aggregation(countBy, group) ==
    IF countBy = "sessions" THEN Len(group)
    ELSE Coalesce(SqlSum([i \in 1..Len(group) |->
                             group[i].watch_time_seconds]), 0)

\* The groups of GROUP BY with their aggregate, in some order.
RECURSIVE GroupSeq(_, _, _, _)
GroupSeq(labels, rows, dimension, countBy) ==
    IF labels = {} THEN <<>>
    ELSE LET l == CHOOSE x \in labels : TRUE
         IN  <<[label |-> l,
                count |-> Aggregation(countBy,
                             SelectSeq(rows, LAMBDA r : r[dimension] = l))]>>
             \o GroupSeq(labels \ {l}, rows, dimension, countBy)

\* getTopByDimension: lines 96-131.
GetTopByDimension(dimension, timeRange, limit, mediaType, countBy, at) ==
    LET rows == TopMatching(dimension, timeRange, mediaType, at)
        labels == {rows[i][dimension] : i \in 1..Len(rows)}
    IN  Limit(OrderBy(GroupSeq(labels, rows, dimension, countBy),
                      "count DESC"),
              EffectiveLimit(limit))

\* Date.getTimezoneOffset() as a function of the timestamp, in ticks: UTC,
\* UTC-5, UTC+2, and a zone that moves its clocks forward by an hour
\* between tick 0 and tick 1.
TzRules ==
    {[t \in Starts |-> 0], [t \in Starts |-> 10], [t \in Starts |-> 0 - 4],
     [t \in Starts |-> IF t < 1 THEN 10 ELSE 8]}

\* timestampToLocal: lines 212-218.
TimestampToLocal(timestamp, tz) == timestamp + tz[timestamp]

\* getTimelineSessions: lines 171-206.
GetTimelineSessions(start, end, tz) ==
    LET rows == OrderBy(
                  SelectSeq(table, LAMBDA r :
                      /\ r.session_start >= IsoInstant(start)
                      /\ r.session_start <= IsoInstant(end)
                      /\ r.device_name # Null),
                  "device_name, session_start")
    IN  [i \in 1..Len(rows) |->
            [rows[i] EXCEPT
               !.session_start = TimestampToLocal(@, tz),
               !.session_end = TimestampToLocal(@, tz)]]

\* No query function has been called.
NoAnswer ==
    [fn |-> Null, mediaType |-> Null, limit |-> NoLimit, dimension |-> Null,
     timeRange |-> Null, countBy |-> Null, startDate |-> 0, endDate |-> 0,
     tz |-> [t \in Starts |-> 0], at |-> 0, outcome |-> Null, rows |-> <<>>,
     drawn |-> <<>>]

\* A query function's call settles: it threw at its guard, the engine
\* rejected the query, or it returned rows.
Settle(call, fn, rows) ==
    IF QueryGuard(fn, conn) # "sent"
    THEN [call EXCEPT !.fn = fn, !.outcome = QueryGuard(fn, conn)]
    ELSE IF ~ViewExists
    THEN [call EXCEPT !.fn = fn, !.outcome = ErrEngine]
    ELSE [call EXCEPT !.fn = fn, !.outcome = "returned", !.rows = rows]

Limits == {0, 1, NoLimit}

\* A caller's getRecentSessions(mediaType, limit), to its result.
CallGetRecentSessions(mediaType, limit) ==
    /\ answer = NoAnswer
    /\ answer' = Settle([NoAnswer EXCEPT !.mediaType = mediaType,
                                         !.limit = limit],
                        "getRecentSessions",
                        GetRecentSessions(mediaType, limit))
    /\ UNCHANGED <<table, apiLog, now, focus>>
    /\ UNCHANGED <<dbVars, shellVars, panelVars>>

\* A caller's getTopByDimension(dimension, timeRange, limit, mediaType?,
\* countBy), to its result.
CallGetTopByDimension(dimension, timeRange, limit, mediaType, countBy) ==
    /\ answer = NoAnswer
    /\ answer' = Settle([NoAnswer EXCEPT !.dimension = dimension,
                                         !.timeRange = timeRange,
                                         !.limit = limit,
                                         !.mediaType = mediaType,
                                         !.countBy = countBy,
                                         !.at = now * TicksPerDay],
                        "getTopByDimension",
                        GetTopByDimension(dimension, timeRange, limit,
                                          mediaType, countBy,
                                          now * TicksPerDay))
    /\ UNCHANGED <<table, apiLog, now, focus>>
    /\ UNCHANGED <<dbVars, shellVars, panelVars>>

\* A caller's getTimelineSessions(start, end), in a browser whose timezone
\* follows tz, to its result.
CallGetTimelineSessions(start, end, tz) ==
    /\ answer = NoAnswer
    /\ answer' = Settle([NoAnswer EXCEPT !.startDate = start,
                                         !.endDate = end, !.tz = tz],
                        "getTimelineSessions",
                        GetTimelineSessions(start, end, tz))
    /\ UNCHANGED <<table, apiLog, now, focus>>
    /\ UNCHANGED <<dbVars, shellVars, panelVars>>

\* ------------------------------------- RecentSessions: the table's cells
\* Number.prototype.toString() of a non-negative integer, as its digits.
RECURSIVE NumberToString(_)
NumberToString(n) ==
    IF n < 10
    THEN <<(<<"0", "1", "2", "3", "4", "5", "6", "7", "8", "9">>)[n + 1]>>
    ELSE NumberToString(n \div 10) \o NumberToString(n % 10)

\* String.prototype.padStart(targetLength, padString) with a one-character
\* pad string.
RECURSIVE PadStart(_, _, _)
PadStart(str, targetLength, pad) ==
    IF Len(str) >= targetLength THEN str
    ELSE PadStart(<<pad>> \o str, targetLength, pad)

\* formatDuration without the padding of the seconds.
FormatDurationUnpadded(seconds) ==
    IF seconds = NullNumber THEN <<"-">>
    ELSE NumberToString(seconds[1] \div 60) \o <<":">> \o NumberToString(seconds[1] % 60)

\* formatDuration(seconds): a text as the sequence of its characters.
FormatDuration(seconds) ==
    IF seconds = NullNumber THEN <<"-">>
    ELSE LET mins == seconds[1] \div 60
             secs == seconds[1] % 60
         IN  NumberToString(mins) \o <<":">> \o PadStart(NumberToString(secs), 2, "0")

\* renderTable() on the sessions a getRecentSessions call returned: the
\* Duration cell of each row.
RenderTable ==
    /\ answer.fn = "getRecentSessions"
    /\ answer.outcome = "returned"
    /\ Len(answer.rows) # 0
    /\ answer.drawn = <<>>
    /\ answer' = [answer EXCEPT !.drawn =
                      [i \in 1..Len(answer.rows) |->
                          [duration |->
                              FormatDuration(
                                  answer.rows[i].watch_time_seconds)]]]
    /\ UNCHANGED <<table, apiLog, now, focus>>
    /\ UNCHANGED <<dbVars, shellVars, panelVars>>

\* ------------------------------------------- Timeline: the session pills
\* `container.clientWidth - margin.left - margin.right`, in pixels.
ChartWidth == 672

\* `const minWidth = 10`
MinWidth == 10

\* xScale(date) of d3.scaleTime().domain([start, end]).range([0, width]):
\* the position in units of 1 / (end - start) pixel, so that it is exact.
XScale(date, start, end) == (date - start) * ChartWidth

\* The larger of two numbers.
Max(a, b) == IF a >= b THEN a ELSE b

\* A pill as wide as its session, however short.
PillWidthUnclamped(d, start, end) ==
    XScale(d.session_end, start, end) - XScale(d.session_start, start, end)

\* The `width` attribute of a session pill, in the unit of XScale.
PillWidth(d, start, end) ==
    Max(XScale(d.session_end, start, end)
            - XScale(d.session_start, start, end),
        MinWidth * (end - start))

\* The `x` attribute of a session pill, in the unit of XScale.
PillX(d, start, end) ==
    LET x == XScale(d.session_start, start, end)
    IN  IF XScale(d.session_end, start, end)
              - XScale(d.session_start, start, end) < MinWidth * (end - start)
        THEN x - (MinWidth * (end - start)) \div 2
        ELSE x

\* renderTimeline() on the sessions a getTimelineSessions call returned, with
\* the call's dates as the scale's domain: the x and width of each pill, and
\* the number of units per pixel.
RenderTimeline ==
    /\ answer.fn = "getTimelineSessions"
    /\ answer.outcome = "returned"
    /\ Len(answer.rows) # 0
    /\ answer.startDate < answer.endDate
    /\ answer.drawn = <<>>
    /\ answer' = [answer EXCEPT !.drawn =
                      [i \in 1..Len(answer.rows) |->
                          [x |-> PillX(answer.rows[i], answer.startDate,
                                       answer.endDate),
                           width |-> PillWidth(answer.rows[i],
                                               answer.startDate,
                                               answer.endDate),
                           perPixel |-> answer.endDate - answer.startDate]]]
    /\ UNCHANGED <<table, apiLog, now, focus>>
    /\ UNCHANGED <<dbVars, shellVars, panelVars>>

\* ------------------------------------------------------- specifications
Init ==
    /\ InitDb
    /\ InitShell
    /\ InitPanels
    /\ apiLog = NoApiCall
    /\ table = <<>>
    /\ answer = NoAnswer
    /\ now = 0
    /\ focus \in Panels

appVars == <<table, answer, apiLog, shellPc, dbReady, initError, initCalls,
             loading, error, sessions, tnData, selectedDimension,
             tnTimeRange, tlTimeRange, offsetDays, startDate, endDate,
             inflight, queryCalls, rendered, events, lastEvent, now, focus>>

\* The dashboard: +page mounted once, its initDB() call and its panels.
Next ==
    \/ ShellMount
    \/ \E c \in Calls : BundleSelected(c) /\ UNCHANGED appVars
    \/ \E c \in Calls : Instantiated(c) /\ UNCHANGED appVars
    \/ \E c \in Calls : InstantiateFailed(c) /\ UNCHANGED appVars
    \/ \E c \in Calls : FetchResponded(c) /\ UNCHANGED appVars
    \/ \E c \in Calls : BufferRead(c) /\ UNCHANGED appVars
    \/ \E c \in Calls : Registered(c) /\ UNCHANGED appVars
    \/ \E c \in Calls : Connected(c) /\ UNCHANGED appVars
    \/ \E c \in Calls : ViewCreated(c) /\ UNCHANGED appVars
    \/ \E c \in Calls : ViewFailed(c) /\ UNCHANGED appVars
    \/ ShellInitResolved
    \/ ShellInitRejected
    \/ \E d \in Dimensions : TopNDimensionChange(d)
    \/ \E r \in TimeRanges : TopNTimeRangeChange(r)
    \/ \E i \in 1..MaxLoads, side \in MediaTypes, n \in Rows :
          TopNQueryResolved(i, side, n)
    \/ \E i \in 1..MaxLoads, side \in MediaTypes :
          TopNQueryRejected(i, side)
    \/ GoBack
    \/ GoForward
    \/ GoToNow
    \/ \E r \in TimeRanges : TimelineTimeRangeChange(r)
    \/ \E i \in 1..MaxLoads, n \in Rows : TimelineLoaded(i, n)
    \/ \E i \in 1..MaxLoads : TimelineLoadFailed(i)
    \/ \E p \in RecentPanels, n \in Rows : RecentLoaded(p, n)
    \/ \E p \in RecentPanels : RecentLoadFailed(p)
    \/ WindowResize
    \/ Tick

\* The data access layer under arbitrary callers.
NextDB ==
    \/ \E c \in Calls : ApiInit(c) /\ UNCHANGED appVars
    \/ \E c \in Calls : BundleSelected(c) /\ UNCHANGED appVars
    \/ \E c \in Calls : Instantiated(c) /\ UNCHANGED appVars
    \/ \E c \in Calls : InstantiateFailed(c) /\ UNCHANGED appVars
    \/ \E c \in Calls : FetchResponded(c) /\ UNCHANGED appVars
    \/ \E c \in Calls : BufferRead(c) /\ UNCHANGED appVars
    \/ \E c \in Calls : Registered(c) /\ UNCHANGED appVars
    \/ \E c \in Calls : Connected(c) /\ UNCHANGED appVars
    \/ \E c \in Calls : ViewCreated(c) /\ UNCHANGED appVars
    \/ \E c \in Calls : ViewFailed(c) /\ UNCHANGED appVars
    \/ \E fn \in QueryFns : ApiQuery(fn)

\* The data access layer under callers that never overlap two initDB calls.
NextSeq ==
    \/ \E c \in Calls : ApiInitSeq(c) /\ UNCHANGED appVars
    \/ \E c \in Calls : BundleSelected(c) /\ UNCHANGED appVars
    \/ \E c \in Calls : Instantiated(c) /\ UNCHANGED appVars
    \/ \E c \in Calls : InstantiateFailed(c) /\ UNCHANGED appVars
    \/ \E c \in Calls : FetchResponded(c) /\ UNCHANGED appVars
    \/ \E c \in Calls : BufferRead(c) /\ UNCHANGED appVars
    \/ \E c \in Calls : Registered(c) /\ UNCHANGED appVars
    \/ \E c \in Calls : Connected(c) /\ UNCHANGED appVars
    \/ \E c \in Calls : ViewCreated(c) /\ UNCHANGED appVars
    \/ \E c \in Calls : ViewFailed(c) /\ UNCHANGED appVars
    \/ \E fn \in QueryFns : ApiQuery(fn)

\* The state a first initDB() call that resolved leaves behind, with the
\* file's rows in the view; no page is mounted.
InitQuery ==
    /\ db = ShellCall
    /\ conn = ShellCall
    /\ initPc = [c \in Calls |-> IF c = ShellCall THEN "resolved" ELSE "idle"]
    /\ initErr = [c \in Calls |-> Null]
    /\ fetchStatus = [c \in Calls |-> IF c = ShellCall THEN 200 ELSE NoStatus]
    /\ connInst = [c \in Calls |-> IF c = ShellCall THEN ShellCall ELSE NoDb]
    /\ views = {ShellCall}
    /\ fetchCount = 1
    /\ registerCount = 1
    /\ viewCount = 1
    /\ proxyLog = [requests |-> 1, upstreamFetches |-> 1,
                   upstream |-> [status |-> 200, body |-> "<parquet bytes>"],
                   response |-> ProxyGET([status |-> 200,
                                          body |-> "<parquet bytes>"])]
    /\ InitShell
    /\ InitPanels
    /\ apiLog = NoApiCall
    /\ table \in Tables
    /\ answer = NoAnswer
    /\ now = 0
    /\ focus = "TL"

\* The query functions called on an initialized data access layer.
NextQuery ==
    \/ \E m \in MediaTypes, l \in Limits : CallGetRecentSessions(m, l)
    \/ \E d \in {"artist", "device_name"}, r \in TimeRanges, l \in Limits,
          m \in {Null, "Music"}, c \in {"sessions", "time"} :
             CallGetTopByDimension(d, r, l, m, c)
    \/ \E s \in Starts, e \in Starts, tz \in TzRules :
          CallGetTimelineSessions(s, e, tz)
    \/ RenderTable
    \/ RenderTimeline

Spec == Init /\ [][Next]_vars
SpecQuery == InitQuery /\ [][NextQuery]_vars
SpecDB == Init /\ [][NextDB]_vars
SpecSeq == Init /\ [][NextSeq]_vars

\* ================================================================ claims
\* A response status outside 200..299.
NonOk(status) == status # NoStatus /\ (status < 200 \/ status > 299)

\* Invocations of initDB that went past the `if (db) return` guard.
FullRuns == {c \in Calls : initPc[c] \notin {"idle", "returned"}}

\* C1: initDB is idempotent: whatever the number of calls, and whether or
\* not they overlap, the data file is fetched at most once, the buffer is
\* registered at most once, the view is created at most once, and every
\* call but one is a no-op.
C1_InitDBIdempotent ==
    /\ fetchCount <= 1
    /\ registerCount <= 1
    /\ viewCount <= 1
    /\ Cardinality(FullRuns) <= 1

\* C2: a query function called before any initDB call has completed throws
\* "Database not initialized" and sends no query to the engine.
C2_QueryBeforeInitThrows ==
    (apiLog.n > 0 /\ ~apiLog.initDone) =>
        apiLog.outcome = ErrNotInitialized

C3_ShellStateMachine ==
    /\ [](/\ initCalls <= 1
          /\ shellPc # "created" => initCalls = 1
          /\ dbReady => initPc[ShellCall] \in {"returned", "resolved"}
          /\ initError # Null => initPc[ShellCall] = "rejected"
          /\ ~(dbReady /\ initError # Null))
    /\ [][(dbReady \/ initError # Null) =>
            /\ dbReady' = dbReady
            /\ initError' = initError
            /\ initCalls' = initCalls
            /\ initPc'[ShellCall] = initPc[ShellCall]]_vars

\* C3 witness: the shell is ready after its one initDB call, and a panel
\* has since completed a load.
C3_Witness ==
    /\ shellPc = "ready" /\ dbReady /\ initError = Null
    /\ initCalls = 1 /\ initPc[ShellCall] = "resolved"
    /\ lastEvent = "resolved"

\* C4: when the fetch of the shell's initDB call answers non-2xx, the
\* dashboard never becomes ready: no panel is mounted, no query function
\* is called, and once the rejection is handled the init-error view shows.
C4_FetchFailureIsFatal ==
    NonOk(fetchStatus[ShellCall]) =>
        /\ ~dbReady
        /\ shellPc \in {"awaitInit", "failed"}
        /\ ShellView # "main"
        /\ shellPc = "failed" => ShellView = "init-error"
        /\ \A p \in Panels :
              /\ queryCalls[p] = 0
              /\ inflight[p] = <<>>
              /\ Display(p) = "unmounted"

\* C4 witness: the upstream answered 404 and the shell shows the init-error
\* view with the load error.
C4_Witness ==
    /\ fetchStatus[ShellCall] = 404
    /\ shellPc = "failed"
    /\ ShellView = "init-error"
    /\ initError = "Failed to fetch parquet: 404"

\* A load of panel p starts in this step: the readiness flag or one of the
\* panel's controls changes.
Triggered(p) == dbReady' # dbReady \/ Controls(p)' # Controls(p)
\* A loadData() of panel p resumes from its await in this step.
Settled(p) == PendingLoads(p)' < PendingLoads(p)
\* A loadData() of panel p resumes in its try block in this step.
Succeeded(p) == focus = p /\ Settled(p) /\ lastEvent' = "resolved"

\* C6: in every panel a readiness signal or a control change sets loading,
\* clears the error and issues the panel's call (one for Timeline and
\* Recent Sessions, one Video and one Music call for Top-N); when a load
\* settles the panel is not loading and shows exactly one of loaded, empty
\* or error.
C6_LoadCycle ==
    [][\A p \in Panels :
        /\ Triggered(p) =>
              /\ loading'[p]
              /\ error'[p] = Null
              /\ queryCalls'[p] = queryCalls[p] + (IF p = "TN" THEN 2 ELSE 1)
              /\ PendingLoads(p)' = PendingLoads(p) + 1
              /\ p = "TN" =>
                    /\ inflight'[p][Len(inflight'[p])].Video = "pending"
                    /\ inflight'[p][Len(inflight'[p])].Music = "pending"
        /\ Settled(p) =>
              /\ PendingLoads(p)' = PendingLoads(p) - 1
              /\ ~loading'[p]
              /\ Display(p)' \in {"loaded", "empty", "error"}
      ]_vars

\* C6 witness: after a control change the Timeline's load has settled and
\* the panel shows its rows.
C6_Witness ==
    /\ focus = "TL" /\ events >= 1 /\ lastEvent = "resolved"
    /\ inflight["TL"] = <<>> /\ queryCalls["TL"] >= 2
    /\ ~loading["TL"] /\ Display("TL") = "loaded"
    /\ Controls("TL") # <<"day", 0>>

\* C7 as stated: a load that succeeds with zero rows (in Top-N: with zero
\* rows on a side) does not set the panel's error value and, with no error
\* set, the panel (the side) shows its empty state.
C7_EmptyNeverSetsError ==
    [][\A p \in Panels : Succeeded(p) =>
        IF p = "TN"
        THEN \A side \in MediaTypes : tnData'[side] = 0 =>
                /\ error'[p] = error[p]
                /\ error[p] = Null => SideEmptyShown(side)'
        ELSE sessions'[p] = 0 =>
                /\ error'[p] = error[p]
                /\ error[p] = Null => Display(p)' = "empty"
      ]_vars

\* C7 amended: in the Timeline and Recent Sessions a load that succeeds
\* leaves the error value as it was and, with zero rows and no error set,
\* shows the empty state with nothing drawn. In Top-N a load with zero rows
\* on both sides sets the error value to "No data for selected filters" and
\* the panel shows it in its error element; a load with rows on a side
\* leaves the error value as it was and, with no error set, an empty side
\* shows its empty message.
C7_EmptyResult ==
    [][\A p \in Panels : Succeeded(p) =>
        IF p = "TN"
        THEN IF tnData'.Video = 0 /\ tnData'.Music = 0
             THEN /\ error'[p] = "No data for selected filters"
                  /\ Display(p)' = "error"
                  /\ ~SideEmptyShown("Video")' /\ ~SideEmptyShown("Music")'
             ELSE /\ error'[p] = error[p]
                  /\ \A side \in MediaTypes :
                        (tnData'[side] = 0 /\ error[p] = Null) =>
                            SideEmptyShown(side)'
        ELSE /\ error'[p] = error[p]
             /\ (sessions'[p] = 0 /\ error[p] = Null) =>
                    /\ Display(p)' = "empty"
                    /\ ~rendered'[p].drawn
      ]_vars

\* C7 witness: a Top-N load has succeeded with zero rows on both sides and
\* the panel's error value is the no-data message.
C7_Witness ==
    /\ focus = "TN" /\ lastEvent = "resolved"
    /\ tnData.Video = 0 /\ tnData.Music = 0
    /\ error["TN"] = "No data for selected filters"
    /\ ~loading["TN"] /\ Display("TN") = "error"

\* C8: after a Top-N load has succeeded with zero rows on one side and at
\* least one row on the other, the empty side shows its empty message, the
\* panel's error is not set and the other side's chart is shown with its
\* rows.
C8_OneSideEmpty ==
    \A side \in MediaTypes :
        (/\ focus = "TN" /\ lastEvent = "resolved"
         /\ tnData[side] = 0 /\ tnData[OtherSide(side)] > 0) =>
            /\ SideEmptyShown(side)
            /\ error["TN"] = Null
            /\ SideChartShown(OtherSide(side))
            /\ rendered[OtherSide(side)] = Drawn(tnData[OtherSide(side)])

\* C9 as stated: every panel showing an error has a control to change;
\* changing a control clears the error, sets loading and issues the
\* query; a load that then succeeds ends in loaded or empty.
C9_EveryPanelRecovers ==
    /\ [](\A p \in Panels :
            (/\ shellPc = "ready" /\ focus = p /\ events < EventBudget
             /\ Display(p) = "error") => ENABLED ControlChange(p))
    /\ [][\A p \in Panels :
            /\ (Controls(p)' # Controls(p) /\ error[p] # Null) =>
                  /\ error'[p] = Null /\ loading'[p]
                  /\ queryCalls'[p] > queryCalls[p]
            /\ (Succeeded(p) /\ error[p] = Null) =>
                  Display(p)' \in {"loaded", "empty"}
         ]_vars

\* C9 amended: the Timeline and Top-N always offer a control to change when
\* they show an error, and changing it clears the error, sets loading and
\* issues the panel's call(s); a load that then succeeds leaves the error
\* value as it was (cleared, unless another load of the panel has failed
\* since), except that Top-N sets it to the no-data message when both sides
\* are empty; with no error set the panel ends in loaded or empty. Recent
\* Sessions has no control: once it shows an error, its error value never
\* changes and it issues no further query.
C9_PanelRecovery ==
    /\ [](\A p \in {"TL", "TN"} :
            (/\ shellPc = "ready" /\ focus = p /\ events < EventBudget
             /\ Display(p) = "error") => ENABLED ControlChange(p))
    /\ [][\A p \in {"TL", "TN"} :
            /\ (Controls(p)' # Controls(p) /\ error[p] # Null) =>
                  /\ error'[p] = Null /\ loading'[p]
                  /\ queryCalls'[p] = queryCalls[p] + (IF p = "TN" THEN 2 ELSE 1)
            /\ Succeeded(p) =>
                  /\ \/ error'[p] = error[p]
                     \/ /\ p = "TN" /\ tnData'.Video = 0 /\ tnData'.Music = 0
                        /\ error'[p] = "No data for selected filters"
                  /\ error'[p] = Null => Display(p)' \in {"loaded", "empty"}
         ]_vars
    /\ [][\A p \in {"RM", "RV"} :
            /\ Controls(p)' = Controls(p)
            /\ (shellPc = "ready" /\ error[p] # Null) =>
                  /\ error'[p] = error[p]
                  /\ queryCalls'[p] = queryCalls[p]
                  /\ Display(p)' = "error"
         ]_vars

\* C9 witness: the Timeline showed an error when one of its controls was
\* changed; the error is cleared and the new load is in flight.
C9_Witness ==
    /\ focus = "TL" /\ lastEvent = "control after error"
    /\ error["TL"] = Null /\ loading["TL"]
    /\ PendingLoads("TL") = 1 /\ queryCalls["TL"] = 2

\* C10: a panel issues a query only in a step in which the readiness flag
\* or one of its own controls changes, so never on its own after a failure;
\* a window resize issues no query.
C10_NoRetry ==
    [][/\ \A p \in Panels :
            (queryCalls'[p] # queryCalls[p] \/ Len(inflight'[p]) > Len(inflight[p]))
                => Triggered(p)
       /\ (lastEvent' = "resize" /\ events' # events) =>
            (queryCalls' = queryCalls /\ inflight' = inflight)
      ]_vars

\* C10 witness: a panel's only query has failed, a window resize has come
\* since, and the panel has issued nothing more.
C10_Witness ==
    \E p \in Panels :
        /\ focus = p /\ lastEvent = "resize"
        /\ error[p] = ErrEngine /\ ~loading[p]
        /\ inflight[p] = <<>>
        /\ queryCalls[p] = CallsPerLoad(p)

\* The queries in flight, each with the connection it was sent on.
InFlightQueries ==
    UNION {{[panel |-> p, load |-> i, side |-> p, conn |-> inflight[p][i].conn] :
              i \in 1..Len(inflight[p])} : p \in SessionPanels}
    \cup {[panel |-> "TN", load |-> i, side |-> "Video",
           conn |-> inflight["TN"][i].videoConn] :
             i \in {j \in 1..Len(inflight["TN"]) :
                      inflight["TN"][j].Video = "pending"}}
    \cup {[panel |-> "TN", load |-> i, side |-> "Music",
           conn |-> inflight["TN"][i].musicConn] :
             i \in {j \in 1..Len(inflight["TN"]) :
                      inflight["TN"][j].Music = "pending"}}

\* C11 as stated: no two queries in flight at the same time were sent on
\* the same connection.
C11_OwnConnections ==
    \A q1, q2 \in InFlightQueries : q1 # q2 => q1.conn # q2.conn

\* C11 amended: every query of the dashboard's panels is sent on the one
\* connection that the shell's initDB call opened and stored in the module
\* variable conn; queries in flight at the same time share it.
C11_SharedConnection ==
    \A q \in InFlightQueries :
        /\ q.conn = ShellCall
        /\ q.conn = conn
        /\ initPc[ShellCall] = "resolved"

\* C11 witness: the four panels' first queries, two of them Top-N's, are
\* in flight together on the shell's connection.
C11_Witness ==
    /\ Cardinality(InFlightQueries) = 5
    /\ \A q \in InFlightQueries : q.conn = ShellCall
    /\ \E q1, q2 \in InFlightQueries :
          q1.panel = "RM" /\ q2.panel = "RV" /\ q1.conn = q2.conn

\* C12: the Timeline's offsetDays is never negative, and the window end
\* computed at a load (kept in endDate and passed to the query) is never
\* later than the current time.
C12_CursorNotInFuture ==
    /\ offsetDays >= 0
    /\ endDate <= now
    /\ \A i \in 1..Len(inflight["TL"]) : inflight["TL"][i].endDate <= now

\* C12 witness: back by a day, granularity to week, then forward: the
\* cursor, one day back, is clamped to 0 instead of going 6 days ahead.
C12_Witness ==
    /\ focus = "TL" /\ offsetDays = 0 /\ tlTimeRange = "week"
    /\ Len(inflight["TL"]) = 4
    /\ inflight["TL"][2].endDate = now - 1
    /\ inflight["TL"][3].endDate = now - 1
    /\ inflight["TL"][3].startDate = now - 8
    /\ inflight["TL"][4].endDate = now
    /\ inflight["TL"][4].startDate = now - 7

\* C13: at every Timeline load endDate is the current time minus
\* offsetDays days and startDate is endDate minus 1, 7 or 30 days for day,
\* week or month, and getTimelineSessions is called with that pair.
C13_WindowDerived ==
    [][Triggered("TL") =>
        /\ endDate' = now' - offsetDays'
        /\ startDate' = endDate' - (CASE tlTimeRange' = "day" -> 1
                                      [] tlTimeRange' = "week" -> 7
                                      [] OTHER -> 30)
        /\ inflight'["TL"] # <<>>
        /\ inflight'["TL"][Len(inflight'["TL"])].startDate = startDate'
        /\ inflight'["TL"][Len(inflight'["TL"])].endDate = endDate'
      ]_vars

\* C13 witness: a day after the page was opened, with the cursor a week
\* back and the granularity month, the query in flight has the window
\* [now - 37, now - 7].
C13_Witness ==
    /\ focus = "TL" /\ now = 1
    /\ tlTimeRange = "month" /\ offsetDays = 7
    /\ inflight["TL"] # <<>>
    /\ inflight["TL"][Len(inflight["TL"])].endDate = -6
    /\ inflight["TL"][Len(inflight["TL"])].startDate = -36
    /\ startDate = -36 /\ endDate = -6

\* C20: the data proxy makes one upstream fetch per request; it answers a
\* non-2xx upstream response with the upstream's status, and any other
\* with the upstream's bytes, Content-Type application/octet-stream and
\* Cache-Control public, max-age=300.
C20_ProxyPassThrough ==
    /\ proxyLog.upstreamFetches = proxyLog.requests
    /\ proxyLog.requests > 0 =>
          IF NonOk(proxyLog.upstream.status)
          THEN proxyLog.response.status = proxyLog.upstream.status
          ELSE /\ proxyLog.response.body = proxyLog.upstream.body
               /\ proxyLog.response.contentType = "application/octet-stream"
               /\ proxyLog.response.cacheControl = "public, max-age=300"

\* C20 witness: the proxy has served two requests, the last one answered
\* 503 by the upstream and by the proxy.
C20_Witness ==
    /\ proxyLog.requests = 2 /\ proxyLog.upstreamFetches = 2
    /\ proxyLog.upstream.status = 503
    /\ proxyLog.response.status = 503

\* A direct call of query function fn has returned rows.
Returned(fn) == answer.fn = fn /\ answer.outcome = "returned"
\* The limit a call asked for (10 when it passed none).
AskedLimit == IF answer.limit = NoLimit THEN 10 ELSE answer.limit

\* C14: getRecentSessions(mediaType, limit) returns only rows of that media
\* type, in non-increasing order of session_start, at most limit of them.
C14_RecentSessions ==
    Returned("getRecentSessions") =>
        /\ \A i \in 1..Len(answer.rows) :
              answer.rows[i].media_type = answer.mediaType
        /\ \A i \in 1..(Len(answer.rows) - 1) :
              answer.rows[i].session_start >= answer.rows[i + 1].session_start
        /\ Len(answer.rows) <= AskedLimit

\* C14 witness: of three rows, the two Music rows are returned, the later
\* one first.
C14_Witness ==
    /\ Returned("getRecentSessions") /\ answer.mediaType = "Music"
    /\ Len(table) = 3 /\ Len(answer.rows) = 2
    /\ answer.rows[1].session_start > answer.rows[2].session_start

\* C15: getTopByDimension returns at most limit rows, in non-increasing
\* order of count, one row per label, none with a null or empty label.
C15_TopByDimension ==
    Returned("getTopByDimension") =>
        /\ Len(answer.rows) <= AskedLimit
        /\ \A i \in 1..(Len(answer.rows) - 1) :
              answer.rows[i].count >= answer.rows[i + 1].count
        /\ \A i, j \in 1..Len(answer.rows) :
              i # j => answer.rows[i].label # answer.rows[j].label
        /\ \A i \in 1..Len(answer.rows) :
              answer.rows[i].label # Null /\ answer.rows[i].label # ""

\* C15 witness: two labels are returned, the one with two sessions before
\* the one with one.
C15_Witness ==
    /\ Returned("getTopByDimension") /\ answer.dimension = "artist"
    /\ Len(answer.rows) = 2
    /\ answer.rows[1].count = 2 /\ answer.rows[2].count = 1

\* The rows of the file that getTopByDimension should count for a label:
\* those of the asked media type that start in [call - range, call].
CountedInClosedWindow(label) ==
    {i \in 1..Len(table) :
        /\ table[i][answer.dimension] = label
        /\ (answer.mediaType # Null =>
               table[i].media_type = answer.mediaType)
        /\ table[i].session_start >=
              answer.at - TicksPerDay * (CASE answer.timeRange = "day" -> 1
                                           [] answer.timeRange = "week" -> 7
                                           [] OTHER -> 30)
        /\ table[i].session_start <= answer.at}

\* C16: getTopByDimension aggregates exactly the sessions that start in the
\* closed window [now - timeRange, now]: each returned count is the number
\* of such sessions with that label.
C16_ClosedWindow ==
    (Returned("getTopByDimension") /\ answer.countBy = "sessions") =>
        \A i \in 1..Len(answer.rows) :
            answer.rows[i].count =
                Cardinality(CountedInClosedWindow(answer.rows[i].label))

\* C17: getTimelineSessions(start, end) returns only rows with a device
\* name whose session_start is in [start, end], ordered by device name and
\* then by session_start ascending.
C17_TimelineSessions ==
    Returned("getTimelineSessions") =>
        /\ \A i \in 1..Len(answer.rows) :
              /\ answer.rows[i].device_name # Null
              /\ answer.startDate <= answer.rows[i].session_start
              /\ answer.rows[i].session_start <= answer.endDate
        /\ \A i \in 1..(Len(answer.rows) - 1) :
              \/ TextBefore(answer.rows[i].device_name,
                            answer.rows[i + 1].device_name)
              \/ /\ answer.rows[i].device_name = answer.rows[i + 1].device_name
                 /\ answer.rows[i].session_start
                       <= answer.rows[i + 1].session_start

\* C18: getRecentSessions and getTopByDimension called with limit = 0 on an
\* initialized data access layer return an empty array and throw nothing.
C18_LimitZero ==
    (/\ answer.fn \in {"getRecentSessions", "getTopByDimension"}
     /\ answer.limit = 0) =>
        /\ answer.outcome = "returned"
        /\ answer.rows = <<>>

\* C18 witness: getTopByDimension with limit 0 over a file in which three
\* sessions match returns no row.
C18_Witness ==
    /\ answer.fn = "getTopByDimension" /\ answer.limit = 0
    /\ answer.dimension = "artist" /\ answer.timeRange = "month"
    /\ answer.mediaType = Null
    /\ Len(table) = 3
    /\ \A i \in 1..3 : table[i].artist = "a" /\ table[i].session_start = 0
    /\ answer.outcome = "returned" /\ answer.rows = <<>>

\* C19 as stated: every message in a panel's error element and in the
\* shell's init-error view is the message of a failure (a rejected query, a
\* query function's guard, or the rejected initDB call).
C19_OnlyFailureMessages ==
    /\ \A p \in Panels :
          PanelErrorShown(p) \in {Null, ErrEngine, ErrNotInitialized}
    /\ ShellErrorShown.message \in {Null, initErr[ShellCall]}

\* C19 amended: a panel's error value is set either by the catch block of
\* a failed load, to exactly the message of what was thrown, or by a Top-N
\* load that succeeded with zero rows on both sides, to the fixed text "No
\* data for selected filters"; the shell's init-error view shows, after its
\* label, exactly the message initDB rejected with.
C19_ErrorMessages ==
    /\ [](/\ initError # Null =>
               /\ initPc[ShellCall] = "rejected"
               /\ initError = initErr[ShellCall]
               /\ ShellErrorShown = [label |-> "Failed to load data: ",
                                     message |-> initErr[ShellCall]]
          /\ \A p \in Panels :
               /\ PanelErrorShown(p) \in
                     {Null, ErrEngine, "No data for selected filters"}
               /\ PanelErrorShown(p) = "No data for selected filters"
                     => p = "TN")
    /\ [][\A p \in Panels :
            (error'[p] # error[p] /\ error'[p] # Null) =>
                \/ /\ lastEvent' = "rejected" /\ Settled(p)
                   /\ error'[p] = ErrEngine
                \/ /\ p = "TN" /\ Succeeded(p)
                   /\ tnData'.Video = 0 /\ tnData'.Music = 0
                   /\ error'[p] = "No data for selected filters"
         ]_vars

\* C19 witness: the Timeline's query was rejected by the engine and the
\* panel shows the engine's message.
C19_Witness ==
    /\ focus = "TL" /\ lastEvent = "rejected"
    /\ PanelErrorShown("TL") = ErrEngine
    /\ Display("TL") = "error"

\* The text a non-negative whole number of seconds should be shown as:
\* the minutes, a colon, and the two digits of the seconds.
DurationText(s) ==
    NumberToString(s \div 60) \o <<":">>
        \o <<NumberToString((s % 60) \div 10)[1], NumberToString((s % 60) % 10)[1]>>

\* C21: every Duration cell of a rendered Recent Sessions table is "-" for
\* a null watch time and otherwise floor(s/60), a colon and floor(s mod 60)
\* in two digits; 125 seconds are shown as "2:05".
C21_FormatDuration ==
    /\ FormatDuration(<<125>>) = <<"2", ":", "0", "5">>
    /\ (answer.fn = "getRecentSessions" /\ answer.drawn # <<>>) =>
          /\ Len(answer.drawn) = Len(answer.rows)
          /\ \A i \in 1..Len(answer.rows) :
                LET s == answer.rows[i].watch_time_seconds
                IN  answer.drawn[i].duration =
                       IF s = NullNumber THEN <<"-">> ELSE DurationText(s[1])

\* C21 witness: a rendered table with a row of more than an hour, shown
\* with 62 minutes, and a row of five seconds.
C21_Witness ==
    /\ answer.fn = "getRecentSessions"
    /\ \E i \in 1..Len(answer.drawn) :
          /\ answer.rows[i].watch_time_seconds = <<3725>>
          /\ answer.drawn[i].duration = <<"6", "2", ":", "0", "5">>
    /\ \E i \in 1..Len(answer.drawn) :
          answer.rows[i].watch_time_seconds = <<5>>

\* The rows of the file that pass a getTopByDimension call's filter and
\* carry the label: not before the cutoff, of the asked media type.
MatchingRows(label) ==
    {i \in 1..Len(table) :
        /\ table[i][answer.dimension] = label
        /\ (answer.mediaType # Null =>
               table[i].media_type = answer.mediaType)
        /\ table[i].session_start >=
              answer.at - TicksPerDay * (CASE answer.timeRange = "day" -> 1
                                           [] answer.timeRange = "week" -> 7
                                           [] OTHER -> 30)}

\* The watch times of the rows in S added up, a null watch time as 0.
RECURSIVE WatchTimeTotal(_)
WatchTimeTotal(S) ==
    IF S = {} THEN 0
    ELSE LET i == CHOOSE x \in S : TRUE
             w == table[i].watch_time_seconds
         IN  (IF w = NullNumber THEN 0 ELSE w[1]) + WatchTimeTotal(S \ {i})

\* C28: with countBy = "sessions" each returned count is the number of
\* matching rows of the label, with countBy = "time" the sum of their watch
\* times with null as 0; a label with matching rows is returned whatever
\* its count when the limit leaves room for it.
C28_CountBy ==
    Returned("getTopByDimension") =>
        /\ \A i \in 1..Len(answer.rows) :
              LET S == MatchingRows(answer.rows[i].label)
              IN  /\ S # {}
                  /\ answer.rows[i].count =
                        IF answer.countBy = "sessions" THEN Cardinality(S)
                        ELSE WatchTimeTotal(S)
        /\ Len(answer.rows) < AskedLimit =>
              \A k \in 1..Len(table) :
                 LET l == table[k][answer.dimension]
                 IN  (l # Null /\ l # "" /\ MatchingRows(l) # {}) =>
                        \E i \in 1..Len(answer.rows) :
                           answer.rows[i].label = l

\* C28 witness: a call with countBy = "time" returned one artist with the
\* sum of two watch times and, after it, an artist whose only row has no
\* watch time, with count 0.
C28_Witness ==
    /\ Returned("getTopByDimension") /\ answer.countBy = "time"
    /\ answer.dimension = "artist"
    /\ Len(answer.rows) = 2
    /\ answer.rows[1].count = 250 /\ answer.rows[2].count = 0
    /\ \A k \in 1..Len(table) :
          table[k].artist = answer.rows[2].label =>
             table[k].watch_time_seconds = NullNumber

\* C26: when no stored session ends before it starts, no row returned by
\* getTimelineSessions has a session_end earlier than its session_start,
\* whatever the timezone offsets of the two timestamps are.
C26_EndNotBeforeStart ==
    (/\ Returned("getTimelineSessions")
     /\ \A k \in 1..Len(table) :
           table[k].session_end >= table[k].session_start) =>
        \A i \in 1..Len(answer.rows) :
            answer.rows[i].session_end >= answer.rows[i].session_start

\* C27: every drawn pill is max(x(session_end) - x(session_start), 10)
\* pixels wide, so at least 10 pixels, and starts at x(session_start), or 5
\* pixels left of it when the unclamped width is below 10 pixels.
C27_PillGeometry ==
    (answer.fn = "getTimelineSessions" /\ answer.drawn # <<>>) =>
        /\ Len(answer.drawn) = Len(answer.rows)
        /\ \A i \in 1..Len(answer.rows) :
              LET unit == answer.endDate - answer.startDate
                  xs == (answer.rows[i].session_start - answer.startDate)
                           * ChartWidth
                  xe == (answer.rows[i].session_end - answer.startDate)
                           * ChartWidth
                  p == answer.drawn[i]
              IN  /\ p.perPixel = unit
                  /\ p.width >= 10 * unit
                  /\ p.width = IF xe - xs >= 10 * unit THEN xe - xs
                               ELSE 10 * unit
                  /\ p.x = IF xe - xs < 10 * unit THEN xs - 5 * unit ELSE xs

\* C27 witness: a chart with a pill of its session's width and a pill of a
\* session that ends before it starts, drawn 10 pixels wide.
C27_Witness ==
    /\ answer.fn = "getTimelineSessions" /\ Len(answer.drawn) >= 2
    /\ \E i \in 1..Len(answer.drawn) :
          /\ answer.drawn[i].width > 10 * answer.drawn[i].perPixel
          /\ answer.rows[i].session_end > answer.rows[i].session_start
    /\ \E i \in 1..Len(answer.drawn) :
          /\ answer.drawn[i].width = 10 * answer.drawn[i].perPixel
          /\ answer.rows[i].session_end < answer.rows[i].session_start

\* C24: whenever an initDB call resolves (the first call, a repeated one,
\* one made while another is in progress, one made after a failed call),
\* the connection is open and the view `sessions` exists, so that no query
\* function then throws "Database not initialized".
C24_ResolvedMeansReady ==
    [][\A c \in Calls :
          (~Resolved(c) /\ Resolved(c)') =>
              /\ conn' # NoConn
              /\ ViewExists'
              /\ \A fn \in QueryFns :
                    QueryGuard(fn, conn') # ErrNotInitialized
      ]_vars

\* C23: in each panel loading is true whenever one of the panel's queries
\* is in flight, and it becomes false only in a step after which no load of
\* the panel is pending.
C23_LoadingWhileInFlight ==
    /\ [](\A q \in InFlightQueries : loading[q.panel])
    /\ [][\A p \in Panels :
            (loading[p] /\ ~loading'[p]) => PendingLoads(p)' = 0]_vars

\* C25: when a Top-N load settles by a failure of its Video or its Music
\* query, the panel shows the error state with the failure's message and
\* keeps videoData, musicData and the charts as they were; a query that
\* resolves after its load has failed changes nothing either.
C25_FailureKeepsData ==
    [][/\ (Settled("TN") /\ ~Succeeded("TN")) =>
             /\ lastEvent' = "rejected"
             /\ error'["TN"] = ErrEngine
             /\ Display("TN")' = "error"
             /\ ~loading'["TN"]
             /\ tnData' = tnData
             /\ rendered' = rendered
       /\ (focus = "TN" /\ lastEvent' = "query") =>
             /\ tnData' = tnData
             /\ error'["TN"] = error["TN"]
             /\ rendered' = rendered
      ]_vars

\* C25 witness: the panel's first load failed on one query after the other
\* had resolved, and the panel shows the error with the data it started
\* with.
C25_Witness ==
    /\ focus = "TN" /\ lastEvent = "rejected" /\ events = 0
    /\ inflight["TN"] = <<>>
    /\ queryCalls["TN"] = 2
    /\ error["TN"] = ErrEngine /\ Display("TN") = "error"
    /\ tnData = [Video |-> 0, Music |-> 0]

\* C29: in the Timeline, goForward right after goBack, with the granularity
\* unchanged, gives offsetDays its value of before; goToNow sets offsetDays
\* to 0; the forward and Now buttons are enabled exactly when offsetDays > 0.
C29_BackForward ==
    /\ [][/\ GoBack =>
                /\ offsetDays' = offsetDays + SpanDays(tlTimeRange)
                /\ tlTimeRange' = tlTimeRange
                /\ ForwardOffset(offsetDays', tlTimeRange') = offsetDays
          /\ GoForward =>
                offsetDays' = ForwardOffset(offsetDays, tlTimeRange)
          /\ GoToNow => offsetDays' = 0
         ]_vars
    /\ []((shellPc = "ready" /\ focus = "TL" /\ events < EventBudget) =>
             /\ ENABLED GoBack
             /\ ENABLED GoForward <=> offsetDays > 0
             /\ ENABLED GoToNow <=> offsetDays > 0)

\* C29 witness: back, back and forward by a day each, no load of the four
\* settled yet: the loads' windows end 0, 1, 2 and 1 days ago and offsetDays
\* is 1 again.
C29_Witness ==
    /\ focus = "TL" /\ tlTimeRange = "day" /\ offsetDays = 1
    /\ Len(inflight["TL"]) = 4
    /\ \A i \in 1..4 :
          /\ inflight["TL"][i].endDate = now - (<<0, 1, 2, 1>>)[i]
          /\ inflight["TL"][i].startDate = inflight["TL"][i].endDate - 1

\* The load rec of panel p asked for what the panel's controls select now:
\* Top-N's dimension and time range, the Timeline's granularity and offset
\* (at some time of the clock up to now).
ForCurrentControls(p, rec) ==
    IF p = "TN"
    THEN rec.dimension = selectedDimension /\ rec.timeRange = tnTimeRange
    ELSE /\ rec.endDate - rec.startDate = SpanDays(tlTimeRange)
         /\ \E t \in 0..now : rec.endDate = t - offsetDays

\* C22: when a panel's last pending load settles with a result, the result
\* it puts on display is that of the load made for the panel's current
\* controls, in whatever order the queries completed.
C22_ShowsCurrentControls ==
    [][\A p \in {"TN", "TL"} :
          (Succeeded(p) /\ PendingLoads(p)' = 0) =>
              \E i \in 1..Len(inflight[p]) :
                  /\ inflight'[p] = RemoveAt(inflight[p], i)
                  /\ ForCurrentControls(p, inflight[p][i])
      ]_vars
====
